---- MODULE Spec2Model ----
(***************************************************************************)
(* Station 3310: the encrypted mission store (missions.py), the one-time   *)
(* pad helpers (crypt.py) and the broadcast handler that consumes pad rows *)
(* (main.py).                                                              *)
(*                                                                         *)
(* Values.  A Python str is a sequence of one-character strings wrapped as *)
(* [k |-> "txt", s |-> <<...>>].  The base64 text of an AES-GCM output is  *)
(* [k |-> "b64", key, nonce, pt, sub, strip]: the sealed plaintext pt, the *)
(* key and nonce it was sealed under, and two flags that say how the text  *)
(* differs from standard base64: sub (its '/' and '+' were replaced by '_' *)
(* and '-') and strip (its '=' padding was removed).  AES-GCM itself is    *)
(* the ideal primitive: opening succeeds exactly under the sealing key.    *)
(* os.urandom(12) is modelled as a value never drawn before.               *)
(***************************************************************************)
EXTENDS Integers, Sequences, FiniteSets, TLC

\* ---------------------------------------------------------------- bounds
MaxMissions == 2      \* add_mission calls in one run
MaxNonces == 6        \* os.urandom(12) draws in one run
Pages == 2            \* generate_pad's pages (100 in add_mission's call)
GroupsPerPage == 2    \* generate_pad's groups_per_page (10 in add_mission's call)
MaxBroadcastChars == 2  \* validate_broadcast_text's limit (25 in main.py)
MaxDecodeLen == 5     \* digits in a row of the decode window (50 in the window)
MaxOtpLen == 2        \* digits in a string given to the OTP functions
GroupLength == 2      \* generate_pad's group_length (5 in add_mission's call)

\* -------------------------------------------------------------- constants
NonceBytes == 12      \* os.urandom(12)
TagBytes == 16        \* the tag AESGCM.encrypt appends

\* ------------------------------------------------------------- characters
Txt(s) == [k |-> "txt", s |-> s]

None == [k |-> "none"]

DigitChars == <<"0", "1", "2", "3", "4", "5", "6", "7", "8", "9">>

DigitChar(d) == DigitChars[d + 1]

IntOf(c) == CHOOSE d \in 0..9 : DigitChars[d + 1] = c

Uppercase ==
  <<"A", "B", "C", "D", "E", "F", "G", "H", "I", "J", "K", "L", "M",
    "N", "O", "P", "Q", "R", "S", "T", "U", "V", "W", "X", "Y", "Z">>

Lowercase ==
  <<"a", "b", "c", "d", "e", "f", "g", "h", "i", "j", "k", "l", "m",
    "n", "o", "p", "q", "r", "s", "t", "u", "v", "w", "x", "y", "z">>

\* ch.isalpha() or ch.isspace(); the sharp s is a letter without an upper case
\* form of its own
IsAlphaOrSpace(c) ==
  \/ \E i \in 1..26 : c = Uppercase[i] \/ c = Lowercase[i]
  \/ c = "ß"
  \/ c = " "

\* str.upper() of one character: "ß".upper() is "SS"
UpperChar(c) ==
  IF c = "ß" THEN <<"S", "S">>
  ELSE IF \E i \in 1..26 : c = Lowercase[i]
       THEN <<Uppercase[CHOOSE i \in 1..26 : c = Lowercase[i]]>>
       ELSE <<c>>

\* crypt.LETTER_TO_DIGIT: A..Z -> "01".."26", space -> "00"
LETTER_TO_DIGIT ==
  [c \in {Uppercase[i] : i \in 1..26} \cup {" "} |->
     IF c = " " THEN <<"0", "0">>
     ELSE LET i == CHOOSE j \in 1..26 : Uppercase[j] = c
          IN <<DigitChar(i \div 10), DigitChar(i % 10)>>]

RECURSIVE Concat(_)
\* ''.join(parts)
Concat(parts) ==
  IF parts = <<>> THEN <<>> ELSE Head(parts) \o Concat(Tail(parts))

RECURSIVE JoinWith(_, _)
\* sep.join(parts)
JoinWith(sep, parts) ==
  IF parts = <<>> THEN <<>>
  ELSE IF Len(parts) = 1 THEN Head(parts)
  ELSE Head(parts) \o <<sep>> \o JoinWith(sep, Tail(parts))

FirstNewline(s) ==
  IF \E i \in 1..Len(s) : s[i] = "\n"
  THEN CHOOSE i \in 1..Len(s) : s[i] = "\n" /\ \A j \in 1..(i - 1) : s[j] # "\n"
  ELSE 0

RECURSIVE SplitLines(_)
\* str.splitlines()
SplitLines(s) ==
  IF s = <<>> THEN <<>>
  ELSE LET i == FirstNewline(s)
       IN IF i = 0 THEN <<s>>
          ELSE <<SubSeq(s, 1, i - 1)>> \o SplitLines(SubSeq(s, i + 1, Len(s)))

IsSpaceChar(c) == c = " "

\* row.strip().replace(" ", "")
StripReplaceSpaces(s) == SelectSeq(s, LAMBDA c : ~IsSpaceChar(c))

\* ------------------------------------------------------ base64 and AES-GCM
\* AESGCM(key) accepts 128, 192 and 256 bit keys and raises ValueError otherwise
ValidKey(key) == key.len \in {16, 24, 32}

\* the base64 text of n raw bytes has 4 * ceil(n / 3) characters, the last
\* (3 - n % 3) % 3 of them '=' padding
PadOf(n) == (3 - (n % 3)) % 3

RECURSIVE TextLen(_)
\* len() of a text value
TextLen(v) ==
  IF v.k = "txt" THEN Len(v.s)
  ELSE LET raw == NonceBytes + TextLen(v.pt) + TagBytes
       IN 4 * ((raw + 2) \div 3) - (IF v.strip THEN PadOf(raw) ELSE 0)

RawLen(v) == NonceBytes + TextLen(v.pt) + TagBytes

PadCount(v) == PadOf(RawLen(v))

\* whether the standard base64 text contains '/' or '+'; it depends on the
\* sealed bytes, which the nonce decides
HasSpecial(v) == ((v.nonce \div 2) % 2) = 1

\* base64.b64encode(nonce + aesgcm.encrypt(nonce, pt.encode('utf-8'), None))
Seal(key, nonce, pt) ==
  [k |-> "b64", key |-> key, nonce |-> nonce, pt |-> pt, sub |-> FALSE, strip |-> FALSE]

\* .replace('/', '_').replace('+', '-').replace('=', '')
ToFilename(v) ==
  [v EXCEPT !.sub = HasSpecial(v), !.strip = PadCount(v) # 0]

\* FromFilename without the two replace calls: the substituted characters stay
FromFilenameNoReplace(v) ==
  IF v.k = "b64"
  THEN [v EXCEPT !.strip = FALSE]
  ELSE v

\* .replace('_', '/').replace('-', '+'), then '=' * (4 - len % 4) when len % 4 # 0
FromFilename(v) ==
  IF v.k = "b64"
  THEN LET padding_needed == (TextLen(v) % 4)
           added == IF padding_needed # 0 THEN 4 - padding_needed ELSE 0
       IN [v EXCEPT !.sub = FALSE,
                    !.strip = IF v.strip THEN added # PadCount(v) ELSE FALSE]
  ELSE LET r == [i \in 1..Len(v.s) |->
                   IF v.s[i] = "_" THEN "/" ELSE IF v.s[i] = "-" THEN "+" ELSE v.s[i]]
           padding_needed == (Len(r) % 4)
       IN Txt(IF padding_needed # 0
              THEN r \o [i \in 1..(4 - padding_needed) |-> "="]
              ELSE r)

\* base64.b64decode(text)[:12], [12:] followed by aesgcm.decrypt(nonce, ct, None)
\* and .decode('utf-8').  Text that is not the standard base64 of a sealed
\* message (a plain identifier, a filename form with substituted characters or
\* without its padding) raises in b64decode or fails the tag check.
Open(key, v) ==
  IF v.k = "b64" /\ ~v.sub /\ ~v.strip /\ v.key = key
  THEN [ok |-> TRUE, pt |-> v.pt]
  ELSE [ok |-> FALSE, pt |-> None]

\* ------------------------------------------------------------ class Mission
\* Mission.__init__
NewMission(mission_id) ==
  [id |-> mission_id, encrypted_id |-> None, data |-> Txt(<<>>),
   data_is_bytes |-> FALSE, is_decrypted |-> FALSE]

\* Python truth value of a str or None
Truthy(v) == v.k # "none" /\ TextLen(v) # 0

\* Mission._decrypt_mission_id
DecryptMissionId(m, key) ==
  LET r == Open(key, FromFilename(m.id))
  IN IF r.ok THEN [ok |-> TRUE, m |-> [m EXCEPT !.id = r.pt]]
     ELSE [ok |-> FALSE, m |-> m]

\* Mission._decrypt_mission_data
DecryptMissionData(m, key) ==
  LET r == Open(key, m.data)
  IN IF r.ok THEN [ok |-> TRUE, m |-> [m EXCEPT !.data = r.pt, !.data_is_bytes = FALSE]]
     ELSE [ok |-> FALSE, m |-> m]

\* the first statement of Mission.decrypt
StoreEncryptedId(m) == [m EXCEPT !.encrypted_id = m.id]

\* Mission.decrypt taking a key AESGCM refuses for the early return
DecryptInvalidKeyAccepted(m, key) ==
  LET m0 == StoreEncryptedId(m)
  IN IF m0.is_decrypted \/ ~ValidKey(key) THEN [ok |-> TRUE, m |-> m0]
     ELSE LET a == DecryptMissionId(m0, key)
          IN IF ~a.ok THEN [ok |-> FALSE, m |-> a.m]
             ELSE LET b == DecryptMissionData(a.m, key)
                  IN IF ~b.ok THEN [ok |-> FALSE, m |-> b.m]
                     ELSE [ok |-> TRUE, m |-> [b.m EXCEPT !.is_decrypted = TRUE]]

\* Mission.decrypt
Decrypt(m, key) ==
  LET m0 == StoreEncryptedId(m)
  IN IF m0.is_decrypted THEN [ok |-> TRUE, m |-> m0]
     ELSE IF ~ValidKey(key) THEN [ok |-> FALSE, m |-> m0]
     ELSE LET a == DecryptMissionId(m0, key)
          IN IF ~a.ok THEN [ok |-> FALSE, m |-> a.m]
             ELSE LET b == DecryptMissionData(a.m, key)
                  IN IF ~b.ok THEN [ok |-> FALSE, m |-> b.m]
                     ELSE [ok |-> TRUE, m |-> [b.m EXCEPT !.is_decrypted = TRUE]]

\* Mission._encrypt_mission_data; bytes have no .encode, so the call raises
\* AttributeError after the nonce was drawn
EncryptMissionData(m, key, nonce) ==
  IF m.data_is_bytes THEN [ok |-> FALSE, m |-> m]
  ELSE [ok |-> TRUE,
        m |-> [m EXCEPT !.data = Seal(key, nonce, m.data), !.data_is_bytes = TRUE]]

\* Mission._encrypt_mission_id leaving encrypted_id as decrypt stored it, the
\* name of the file the record was loaded from
EncryptMissionIdKeepingStoredId(m, key, filename_nonce) ==
  [m EXCEPT !.id = ToFilename(Seal(key, filename_nonce, m.id))]

\* Mission._encrypt_mission_id
EncryptMissionId(m, key, filename_nonce) ==
  [m EXCEPT !.encrypted_id = m.id,
            !.id = ToFilename(Seal(key, filename_nonce, m.id))]

\* Mission.encrypt building AESGCM(key) only when the identifier is sealed
EncryptKeyCheckedLate(m, key, nonce) ==
  LET a == EncryptMissionData(m, key, nonce + 1)
  IN IF ~a.ok \/ ~ValidKey(key) THEN [ok |-> FALSE, m |-> a.m, drawn |-> 1]
     ELSE [ok |-> TRUE,
           m |-> [EncryptMissionId(a.m, key, nonce + 2) EXCEPT !.is_decrypted = FALSE],
           drawn |-> 2]

\* Mission.encrypt drawing one nonce and sealing payload and id with it
EncryptOneNonce(m, key, nonce) ==
  IF ~ValidKey(key) THEN [ok |-> FALSE, m |-> m, drawn |-> 0]
  ELSE LET a == EncryptMissionData(m, key, nonce + 1)
       IN IF ~a.ok THEN [ok |-> FALSE, m |-> a.m, drawn |-> 1]
          ELSE [ok |-> TRUE,
                m |-> [EncryptMissionId(a.m, key, nonce + 1) EXCEPT !.is_decrypted = FALSE],
                drawn |-> 1]

\* Mission.encrypt; ok = FALSE stands for the RuntimeError it raises, drawn
\* for the number of nonces it took from os.urandom
Encrypt(m, key, nonce) ==
  IF ~ValidKey(key) THEN [ok |-> FALSE, m |-> m, drawn |-> 0]
  ELSE LET a == EncryptMissionData(m, key, nonce + 1)
       IN IF ~a.ok THEN [ok |-> FALSE, m |-> a.m, drawn |-> 1]
          ELSE [ok |-> TRUE,
                m |-> [EncryptMissionId(a.m, key, nonce + 2) EXCEPT !.is_decrypted = FALSE],
                drawn |-> 2]

\* Mission._save_to_file; ok = FALSE stands for the IOError it raises (write()
\* on a file opened 'wb' takes bytes only)
SaveFilename(m) == IF Truthy(m.encrypted_id) THEN m.encrypted_id ELSE m.id

HasFile(d, name) == \E i \in 1..Len(d) : d[i].name = name

\* open(path, 'wb').write(content): the file is created or wholly replaced
WriteFile(d, name, content) ==
  IF HasFile(d, name)
  THEN [i \in 1..Len(d) |-> IF d[i].name = name THEN [d[i] EXCEPT !.content = content] ELSE d[i]]
  ELSE Append(d, [name |-> name, content |-> content])

\* Path.unlink()
Unlink(d, name) == SelectSeq(d, LAMBDA f : f.name # name)

SaveToFile(m, d) ==
  IF ~m.data_is_bytes THEN [ok |-> FALSE, disk |-> d]
  ELSE [ok |-> TRUE, disk |-> WriteFile(d, SaveFilename(m), m.data)]

\* Mission.update_data; nonce is the number of nonces drawn so far
UpdateData(m, new_data, key, nonce, d) ==
  LET m1 == [m EXCEPT !.data = new_data, !.data_is_bytes = FALSE]
      e == Encrypt(m1, key, nonce)
  IN IF ~e.ok THEN [ok |-> FALSE, m |-> e.m, disk |-> d, drawn |-> e.drawn]
     ELSE LET s == SaveToFile(e.m, d)
          IN IF ~s.ok THEN [ok |-> FALSE, m |-> e.m, disk |-> d, drawn |-> e.drawn]
             ELSE [ok |-> TRUE, m |-> Decrypt(e.m, key).m, disk |-> s.disk,
                   drawn |-> e.drawn]

\* Mission.update_data when open(path, 'wb') raises in _save_to_file: the
\* IOError is caught by update_data's except, after encrypt() has run
UpdateDataWriteRefused(m, new_data, key, nonce, d) ==
  LET m1 == [m EXCEPT !.data = new_data, !.data_is_bytes = FALSE]
      e == Encrypt(m1, key, nonce)
  IN [ok |-> FALSE, m |-> e.m, disk |-> d, drawn |-> e.drawn]

\* The directory after a process death inside update_data, past encrypt() and
\* before _save_to_file's write has returned: at "encrypted" the file is not
\* open yet, at "opened" open(path, 'wb') has created or emptied it, at
\* "partial" a part of the bytes has reached it
CrashPoints == {"encrypted", "opened", "partial"}

Partial(content) == [k |-> "part", of |-> content]

UpdateDataCrash(m, new_data, key, nonce, d, point) ==
  LET m1 == [m EXCEPT !.data = new_data, !.data_is_bytes = FALSE]
      e == Encrypt(m1, key, nonce)
  IN IF ~e.ok \/ ~e.m.data_is_bytes \/ point = "encrypted" THEN d
     ELSE IF point = "opened" THEN WriteFile(d, SaveFilename(e.m), Txt(<<>>))
     ELSE WriteFile(d, SaveFilename(e.m), Partial(e.m.data))

\* Mission.load on a file that exists: the content read back as str
Load(m, f) == [m EXCEPT !.data = f.content, !.data_is_bytes = FALSE]

RECURSIVE GetMissionsFrom(_, _, _)
\* get_missions giving up at the first file that fails
GetMissionsFromAborting(key, d, i) ==
  IF i > Len(d) THEN <<>>
  ELSE LET r == Decrypt(Load(NewMission(d[i].name), d[i]), key)
       IN IF r.ok THEN <<r.m>> \o GetMissionsFrom(key, d, i + 1) ELSE <<>>

\* the loop of get_missions from the i-th file on
GetMissionsFrom(key, d, i) ==
  IF i > Len(d) THEN <<>>
  ELSE LET r == Decrypt(Load(NewMission(d[i].name), d[i]), key)
       IN (IF r.ok THEN <<r.m>> ELSE <<>>) \o GetMissionsFrom(key, d, i + 1)

\* get_missions: every file of the directory ends in .txt
GetMissions(key, d) == GetMissionsFrom(key, d, 1)

\* ------------------------------------------------------------------ crypt
\* the choices generate_mission_id can make, cut down to two
MissionIds == {Txt(<<"F", "1", "Y", "N", "E">>), Txt(<<"Q", "7", "Z", "0", "K">>)}

\* one digit of a generated pad: secrets.choice(digits).  The seed stands for
\* the state of the random source, so that no two rows drawn in a run are equal
PadDigit(seed, page, group, i) == DigitChar((seed + 7 * page + 3 * group + i) % 10)

\* generate_pad
GeneratePad(seed) ==
  [page \in 1..Pages |->
     JoinWith(" ", [g \in 1..GroupsPerPage |->
                      [i \in 1..GroupLength |-> PadDigit(seed, page, g, i)]])]

\* otp_mod_encrypt starting the pad over when the message is longer
OtpModEncryptWrappingPad(message_digits, pad_digits) ==
  IF Len(pad_digits) = 0 /\ Len(message_digits) > 0 THEN [ok |-> FALSE, digits |-> <<>>]
  ELSE [ok |-> TRUE,
        digits |-> [i \in 1..Len(message_digits) |->
                      DigitChar((IntOf(message_digits[i])
                                   + IntOf(pad_digits[((i - 1) % Len(pad_digits)) + 1])) % 10)]]

\* otp_mod_encrypt taking the last len(message) digits of the pad
OtpModEncryptPadFromEnd(message_digits, pad_digits) ==
  IF Len(pad_digits) < Len(message_digits) THEN [ok |-> FALSE, digits |-> <<>>]
  ELSE [ok |-> TRUE,
        digits |-> [i \in 1..Len(message_digits) |->
                      DigitChar((IntOf(message_digits[i])
                                   + IntOf(pad_digits[Len(pad_digits) - Len(message_digits) + i])) % 10)]]

\* otp_mod_encrypt without its length test: zip stops at the shorter string
OtpModEncryptTruncating(message_digits, pad_digits) ==
  [ok |-> TRUE,
   digits |-> [i \in 1..(IF Len(pad_digits) < Len(message_digits)
                          THEN Len(pad_digits) ELSE Len(message_digits)) |->
                 DigitChar((IntOf(message_digits[i]) + IntOf(pad_digits[i])) % 10)]]

\* otp_mod_encrypt; ok = FALSE stands for the ValueError it raises
OtpModEncrypt(message_digits, pad_digits) ==
  IF Len(pad_digits) < Len(message_digits) THEN [ok |-> FALSE, digits |-> <<>>]
  ELSE [ok |-> TRUE,
        digits |-> [i \in 1..Len(message_digits) |->
                      DigitChar((IntOf(message_digits[i]) + IntOf(pad_digits[i])) % 10)]]

\* otp_mod_decrypt adding the pad digit as otp_mod_encrypt does
OtpModDecryptAdding(ciphertext_digits, pad_digits) ==
  IF Len(pad_digits) < Len(ciphertext_digits) THEN [ok |-> FALSE, digits |-> <<>>]
  ELSE [ok |-> TRUE,
        digits |-> [i \in 1..Len(ciphertext_digits) |->
                      DigitChar((IntOf(ciphertext_digits[i]) + IntOf(pad_digits[i])) % 10)]]

\* otp_mod_decrypt; ok = FALSE stands for the ValueError it raises.  Python's %
\* with a positive modulus is never negative: 10 is added before it is taken
OtpModDecrypt(ciphertext_digits, pad_digits) ==
  IF Len(pad_digits) < Len(ciphertext_digits) THEN [ok |-> FALSE, digits |-> <<>>]
  ELSE [ok |-> TRUE,
        digits |-> [i \in 1..Len(ciphertext_digits) |->
                      DigitChar((IntOf(ciphertext_digits[i]) + 10
                                   - IntOf(pad_digits[i])) % 10)]]

\* ------------------------------------------------------------------ decode
\* the reverse dictionary built from the letters alone, the space left out
DigitToLetterLettersOnly(formatted_digits) ==
  IF \E c \in DOMAIN LETTER_TO_DIGIT : c # " " /\ LETTER_TO_DIGIT[c] = formatted_digits
  THEN CHOOSE c \in DOMAIN LETTER_TO_DIGIT : LETTER_TO_DIGIT[c] = formatted_digits
  ELSE "?"

\* {v: k for k, v in crypt.LETTER_TO_DIGIT.items()}.get(formatted_digits, "?")
DigitToLetter(formatted_digits) ==
  IF \E c \in DOMAIN LETTER_TO_DIGIT : LETTER_TO_DIGIT[c] = formatted_digits
  THEN CHOOSE c \in DOMAIN LETTER_TO_DIGIT : LETTER_TO_DIGIT[c] = formatted_digits
  ELSE "?"

\* DecodeWindow._format_digit_pair
FormatDigitPair(digits) ==
  IF Len(digits) = 1 THEN <<"0">> \o digits
  ELSE IF Len(digits) > 2 THEN SubSeq(digits, 1, 2)
  ELSE digits

\* DecodeWindow._decode_character; the except branch gives "?"
DecodeCharacter(pad_pair, cipher_pair) ==
  LET r == OtpModDecrypt(cipher_pair, pad_pair)
  IN IF ~r.ok THEN "?" ELSE DigitToLetter(FormatDigitPair(r.digits))

\* s[i:i+2] for the 0-based index i
Slice2(s, i) == SubSeq(s, i + 1, IF i + 2 <= Len(s) THEN i + 2 ELSE Len(s))

Min(a, b) == IF a <= b THEN a ELSE b

\* _decode_message without the break: the last, single digit is decoded too
DecodeMessageWithFragment(pad_digits, cipher_digits) ==
  LET min_length == Min(Len(pad_digits), Len(cipher_digits))
  IN [n \in 1..((min_length + 1) \div 2) |->
        DecodeCharacter(Slice2(pad_digits, 2 * (n - 1)), Slice2(cipher_digits, 2 * (n - 1)))]

\* DecodeWindow._decode_message: the loop over i = 0, 2, 4, ... breaks at the
\* first i with i + 1 >= min_length
DecodeMessage(pad_digits, cipher_digits) ==
  LET min_length == Min(Len(pad_digits), Len(cipher_digits))
  IN [n \in 1..(min_length \div 2) |->
        DecodeCharacter(Slice2(pad_digits, 2 * (n - 1)), Slice2(cipher_digits, 2 * (n - 1)))]

\* ---------------------------------------------------------------- missions
\* add_mission decrypting the record before it returns it
AddMissionCallDecrypting(key, mission_id, pad, nonce, d) ==
  LET m0 == [NewMission(mission_id) EXCEPT !.data = Txt(JoinWith("\n", pad))]
      e == Encrypt(m0, key, nonce)
  IN IF ~e.ok THEN [ok |-> FALSE, m |-> e.m, disk |-> d, drawn |-> e.drawn]
     ELSE [ok |-> TRUE, m |-> Decrypt(e.m, key).m,
           disk |-> WriteFile(d, e.m.id, e.m.data), drawn |-> e.drawn]

\* add_mission naming the file as _save_to_file does, by encrypted_id
AddMissionCallSaveFilename(key, mission_id, pad, nonce, d) ==
  LET m0 == [NewMission(mission_id) EXCEPT !.data = Txt(JoinWith("\n", pad))]
      e == Encrypt(m0, key, nonce)
  IN IF ~e.ok THEN [ok |-> FALSE, m |-> e.m, disk |-> d, drawn |-> e.drawn]
     ELSE [ok |-> TRUE, m |-> e.m,
           disk |-> WriteFile(d, SaveFilename(e.m), e.m.data), drawn |-> e.drawn]

\* add_mission; ok = FALSE stands for the RuntimeError it raises
AddMissionCall(key, mission_id, pad, nonce, d) ==
  LET m0 == [NewMission(mission_id) EXCEPT !.data = Txt(JoinWith("\n", pad))]
      e == Encrypt(m0, key, nonce)
  IN IF ~e.ok THEN [ok |-> FALSE, m |-> e.m, disk |-> d, drawn |-> e.drawn]
     ELSE [ok |-> TRUE, m |-> e.m, disk |-> WriteFile(d, e.m.id, e.m.data),
           drawn |-> e.drawn]

\* remove_mission reporting success without the exists() test
RemoveMissionCallNoExistsTest(m, d) ==
  IF ~Truthy(m.encrypted_id) THEN [ok |-> FALSE, disk |-> d]
  ELSE [ok |-> TRUE, disk |-> Unlink(d, m.encrypted_id)]

\* remove_mission
RemoveMissionCall(m, d) ==
  IF ~Truthy(m.encrypted_id) THEN [ok |-> FALSE, disk |-> d]
  ELSE IF HasFile(d, m.encrypted_id)
       THEN [ok |-> TRUE, disk |-> Unlink(d, m.encrypted_id)]
       ELSE [ok |-> FALSE, disk |-> d]

\* ------------------------------------------------------------------- state
VARIABLES
  key,          \* main.py's global key, set once by process_key_input
  disk,         \* the missions directory: its .txt files in directory order
  missions,     \* the list the last get_missions call returned (self.missions)
  created,      \* the Mission the last add_mission call returned, or None
  nonces,       \* how many nonces os.urandom has handed out
  made,         \* how many add_mission calls have been made
  broadcasts,   \* what generate_broadcast was given, with the pad row that was used
  last          \* the last call: its name, result, target and arguments

vars == <<key, disk, missions, created, nonces, made, broadcasts, last>>

\* the keys process_key_input can leave in the global: two valid ones and one
\* of a length AESGCM refuses
Keys == {[name |-> "k32", len |-> 32], [name |-> "k16", len |-> 16],
         [name |-> "k10", len |-> 10]}

\* the keys a session is run under: one AESGCM accepts, one it refuses
SessionKeys == {k \in Keys : k.len \in {32, 10}}

\* what a file holds once its bytes are no longer the ciphertext written
Garbled == Txt(<<"?">>)

\* what the user types into the broadcast field
TypedTexts ==
  {<<>>, <<"h", "i", "!", "x">>, [i \in 1..(MaxBroadcastChars + 1) |-> "ß"]}

\* validate_broadcast_text: the text it leaves in the field
ValidateBroadcastText(text) ==
  LET valid_text == SelectSeq(text, IsAlphaOrSpace)
  IN IF Len(valid_text) > MaxBroadcastChars
     THEN SubSeq(valid_text, 1, MaxBroadcastChars)
     ELSE valid_text

\* the texts the user can leave in the broadcast field
Messages == {ValidateBroadcastText(text) : text \in TypedTexts}

\* toPlainText().upper()
Upper(text) == Concat([i \in 1..Len(text) |-> UpperChar(text[i])])

\* message = self.broadcast_text.toPlainText().upper()
UpperMessages == {Upper(text) : text \in Messages}

\* "".join(crypt.LETTER_TO_DIGIT.get(ch, "00") for ch in message)
EncodedMessage(message) ==
  Concat([i \in 1..Len(message) |->
            IF message[i] \in DOMAIN LETTER_TO_DIGIT
            THEN LETTER_TO_DIGIT[message[i]] ELSE <<"0", "0">>])

\* the rows left when the last one is dropped and the first one kept
RestRowsDroppingLast(data) == SubSeq(data, 1, Len(data) - 1)

\* data[1:]
RestRows(data) == Tail(data)

\* why on_generate_clicked did not generate
Refused(why) == [k |-> "refused", why |-> why]

Call(op, ok, t, id, arg) == [op |-> op, ok |-> ok, t |-> t, id |-> id, arg |-> arg]

\* the records a caller holds: 0 is the created one, i >= 1 is missions[i]
Targets == (IF created = None THEN {} ELSE {0}) \cup (1..Len(missions))

Get(t) == IF t = 0 THEN created ELSE missions[t]

Init ==
  /\ key \in SessionKeys
  /\ disk = <<>>
  /\ missions = <<>>
  /\ created = None
  /\ nonces = 0
  /\ made = 0
  /\ broadcasts = {}
  /\ last = Call("start", TRUE, 0, None, None)

\* add_mission(key)
AddMission ==
  /\ made < MaxMissions
  /\ nonces + 2 <= MaxNonces
  /\ \E mission_id \in MissionIds :
       LET pad == GeneratePad(made + 1)
           r == AddMissionCall(key, mission_id, pad, nonces, disk)
       IN /\ made' = made + 1
          /\ nonces' = nonces + r.drawn
          /\ disk' = r.disk
          /\ created' = IF r.ok THEN r.m ELSE created
          /\ last' = Call("add_mission", r.ok, 0, mission_id, Txt(JoinWith("\n", pad)))
  /\ UNCHANGED <<key, missions, broadcasts>>

\* missions = get_missions(k): refresh_mission_list passes the global key, any
\* other caller the key it holds
ListMissions ==
  \E k \in Keys :
    /\ missions' = GetMissions(k, disk)
    /\ last' = Call("get_missions", TRUE, 0, None, k)
    /\ UNCHANGED <<key, disk, created, nonces, made, broadcasts>>

\* the caller's record t after a call left it as m
Put(t, m) ==
  /\ created' = IF t = 0 THEN m ELSE created
  /\ missions' = IF t = 0 THEN missions ELSE [missions EXCEPT ![t] = m]

\* record.decrypt(k) on a record the caller holds
DecryptRecord ==
  \E t \in Targets, k \in Keys :
    LET r == Decrypt(Get(t), k)
    IN /\ Put(t, r.m)
       /\ last' = Call("decrypt", r.ok, t, Get(t).id, k)
       /\ UNCHANGED <<key, disk, nonces, made, broadcasts>>

\* record.encrypt(k) on a record the caller holds, with a key of a length
\* AESGCM refuses (add_mission and update_data make the calls with the session
\* key); ok = FALSE stands for the RuntimeError
EncryptRecord ==
  \E t \in Targets, k \in {x \in Keys : ~ValidKey(x)} :
    LET r == Encrypt(Get(t), k, nonces)
    IN /\ nonces + r.drawn <= MaxNonces
       /\ Put(t, r.m)
       /\ nonces' = nonces + r.drawn
       /\ last' = Call("encrypt", r.ok, t, Get(t).id, k)
       /\ UNCHANGED <<key, disk, made, broadcasts>>

\* record = Mission(stem); record.load() on a file of the directory, as
\* get_missions builds its records: the caller holds an Encrypted record
LoadRecord ==
  \E i \in 1..Len(disk) :
    /\ created' = Load(NewMission(disk[i].name), disk[i])
    /\ last' = Call("load", TRUE, 0, disk[i].name, None)
    /\ UNCHANGED <<key, disk, missions, nonces, made, broadcasts>>

\* record.encrypt(key) with the session key on a record the caller holds,
\* whatever its state; ok = FALSE stands for the RuntimeError
EncryptWithSessionKey ==
  \E t \in Targets :
    LET r == Encrypt(Get(t), key, nonces)
    IN /\ nonces + r.drawn <= MaxNonces
       /\ Put(t, r.m)
       /\ nonces' = nonces + r.drawn
       /\ last' = Call("encrypt", r.ok, t, Get(t).id, key)
       /\ UNCHANGED <<key, disk, made, broadcasts>>

\* the payloads a caller gives to update_data
NewPayloads == {Txt(<<"7", "7">>)}

\* record.update_data(new_data, k) called on a record the caller holds, with
\* any key, the directory writable or not
UpdateDataCall ==
  \E t \in Targets, k \in Keys, new_data \in NewPayloads, writable \in BOOLEAN :
    LET u == IF writable THEN UpdateData(Get(t), new_data, k, nonces, disk)
             ELSE UpdateDataWriteRefused(Get(t), new_data, k, nonces, disk)
    IN /\ nonces + u.drawn <= MaxNonces
       /\ Put(t, u.m)
       /\ disk' = u.disk
       /\ nonces' = nonces + u.drawn
       /\ last' = Call("update_data", u.ok, t, Get(t).id, new_data)
       /\ UNCHANGED <<key, made, broadcasts>>

\* MainWindow.on_generate_clicked with record t selected and the dialog
\* answered Yes; ok = FALSE covers the three warnings and the ValueError of
\* otp_mod_encrypt, none of which changes anything
OnGenerateClicked ==
  \E t \in Targets, message \in UpperMessages :
    LET cur == Get(t)
        data == IF cur.data.k = "txt" THEN SplitLines(cur.data.s) ELSE <<>>
        encoded_message == EncodedMessage(message)
        pad_row == StripReplaceSpaces(data[1])
        c == OtpModEncrypt(encoded_message, pad_row)
        updated_pad_data == Txt(JoinWith("\n", RestRows(data)))
        u == UpdateData(cur, updated_pad_data, key, nonces, disk)
        why == IF ~cur.is_decrypted THEN "not_decrypted"
               ELSE IF message = <<>> THEN "no_message"
               ELSE IF data = <<>> THEN "no_data"
               ELSE IF ~c.ok THEN "pad_too_short"
               ELSE "none"
    IN IF why # "none"
       THEN /\ last' = Call("generate", FALSE, t, cur.id, Refused(why))
            /\ UNCHANGED <<key, disk, missions, created, nonces, made, broadcasts>>
       ELSE /\ nonces + 2 <= MaxNonces
            /\ broadcasts' = broadcasts \cup
                 {[mission |-> cur.id, row |-> data[1], ciphertext |-> c.digits]}
            /\ Put(t, u.m)
            /\ disk' = u.disk
            /\ nonces' = nonces + u.drawn
            /\ last' = Call("update_data", u.ok, t, cur.id, updated_pad_data)
            /\ UNCHANGED <<key, made>>

\* the process dies inside update_data (on_generate_clicked as above, the
\* broadcast already generated) and is started again under the same key
CrashInUpdateData ==
  \E t \in Targets, message \in UpperMessages, point \in CrashPoints :
    LET cur == Get(t)
        data == IF cur.data.k = "txt" THEN SplitLines(cur.data.s) ELSE <<>>
        encoded_message ==
          Concat([i \in 1..Len(message) |->
                    IF message[i] \in DOMAIN LETTER_TO_DIGIT
                    THEN LETTER_TO_DIGIT[message[i]] ELSE <<"0", "0">>])
        pad_row == StripReplaceSpaces(data[1])
        c == OtpModEncrypt(encoded_message, pad_row)
        updated_pad_data == Txt(JoinWith("\n", RestRows(data)))
    IN /\ cur.is_decrypted /\ message # <<>> /\ data # <<>> /\ c.ok
       /\ nonces + 2 <= MaxNonces
       /\ broadcasts' = broadcasts \cup
            {[mission |-> cur.id, row |-> data[1], ciphertext |-> c.digits]}
       /\ disk' = UpdateDataCrash(cur, updated_pad_data, key, nonces, disk, point)
       /\ missions' = <<>>
       /\ created' = None
       /\ nonces' = nonces + 2
       /\ last' = Call("crash", FALSE, t, cur.id, updated_pad_data)
       /\ UNCHANGED <<key, made>>

\* a stored file's content is damaged from outside the program
CorruptFile ==
  \E i \in 1..Len(disk) :
    /\ disk[i].content # Garbled
    /\ disk' = [disk EXCEPT ![i].content = Garbled]
    /\ last' = Call("corrupt", TRUE, 0, disk[i].name, None)
    /\ UNCHANGED <<key, missions, created, nonces, made, broadcasts>>

\* remove_mission(record) on a record the caller holds
RemoveMission ==
  \E t \in Targets :
    LET r == RemoveMissionCall(Get(t), disk)
    IN /\ disk' = r.disk
       /\ last' = Call("remove_mission", r.ok, t, Get(t).id, Get(t).encrypted_id)
       /\ UNCHANGED <<key, missions, created, nonces, made, broadcasts>>

Next ==
  \/ AddMission
  \/ ListMissions
  \/ DecryptRecord
  \/ EncryptRecord
  \/ OnGenerateClicked
  \/ RemoveMission

Spec == Init /\ [][Next]_vars

\* the program with process deaths inside update_data
NextCrash == Next \/ CrashInUpdateData

SpecCrash == Init /\ [][NextCrash]_vars

\* the program with files damaged behind its back
\* callers of missions.py that build, load, encrypt and update the records
\* themselves
NextCaller ==
  \/ AddMission
  \/ ListMissions
  \/ LoadRecord
  \/ EncryptWithSessionKey
  \/ UpdateDataCall

SpecCaller == Init /\ [][NextCaller]_vars

NextCorrupt == Next \/ CorruptFile

SpecCorrupt == Init /\ [][NextCorrupt]_vars

\* ------------------------------------------------------- the OTP functions
\* the digit strings otp_mod_encrypt and otp_mod_decrypt are called with
DigitStrings ==
  UNION {[1..n -> {DigitChars[d] : d \in 1..Len(DigitChars)}] : n \in 0..MaxOtpLen}

OtpCall(op, ok, text, pad, out) ==
  [op |-> op, ok |-> ok, text |-> text, pad |-> pad, out |-> out]

\* a message and a pad are at hand, nothing else has happened
InitOtp ==
  /\ key \in {k \in SessionKeys : ValidKey(k)}
  /\ disk = <<>>
  /\ missions = <<>>
  /\ created = None
  /\ nonces = 0
  /\ made = 0
  /\ broadcasts = {}
  /\ \E message_digits \in DigitStrings, pad_digits \in DigitStrings :
       last = OtpCall("input", TRUE, message_digits, pad_digits, <<>>)

\* otp_mod_encrypt(message_digits, pad_digits)
OtpEncryptCall ==
  /\ last.op = "input"
  /\ LET r == OtpModEncrypt(last.text, last.pad)
     IN last' = OtpCall("otp_mod_encrypt", r.ok, last.text, last.pad, r.digits)
  /\ UNCHANGED <<key, disk, missions, created, nonces, made, broadcasts>>

\* otp_mod_decrypt on the ciphertext just produced, with the same pad
OtpDecryptCall ==
  /\ last.op = "otp_mod_encrypt" /\ last.ok
  /\ LET r == OtpModDecrypt(last.out, last.pad)
     IN last' = OtpCall("otp_mod_decrypt", r.ok, last.out, last.pad, r.digits)
  /\ UNCHANGED <<key, disk, missions, created, nonces, made, broadcasts>>

\* otp_mod_decrypt(ciphertext_digits, pad_digits) on digits received
OtpDecryptInput ==
  /\ last.op = "input"
  /\ LET r == OtpModDecrypt(last.text, last.pad)
     IN last' = OtpCall("otp_mod_decrypt", r.ok, last.text, last.pad, r.digits)
  /\ UNCHANGED <<key, disk, missions, created, nonces, made, broadcasts>>

NextOtp == OtpEncryptCall \/ OtpDecryptCall \/ OtpDecryptInput

SpecOtp == InitOtp /\ [][NextOtp]_vars

\* ------------------------------------------------------- the decode window
\* the digits typed into the two rows: every pair of digits, and the strings
\* of up to MaxDecodeLen digits over two of the ten
DecodeDigits == {"0", "1"}

DecodeRows ==
  [1..2 -> {DigitChars[d] : d \in 1..Len(DigitChars)}]
    \cup UNION {[1..n -> DecodeDigits] : n \in 0..MaxDecodeLen}

InitDecode ==
  /\ key \in {k \in SessionKeys : ValidKey(k)}
  /\ disk = <<>>
  /\ missions = <<>>
  /\ created = None
  /\ nonces = 0
  /\ made = 0
  /\ broadcasts = {}
  /\ \E cipher_digits \in DecodeRows, pad_digits \in DecodeRows :
       last = OtpCall("input", TRUE, cipher_digits, pad_digits, <<>>)

\* DecodeWindow.update_decoded_character; ok = FALSE is the early return on an
\* empty row, out the text put on the result display
UpdateDecodedCharacter ==
  /\ last.op = "input"
  /\ last' = IF last.pad = <<>> \/ last.text = <<>>
             THEN OtpCall("decode", FALSE, last.text, last.pad, <<>>)
             ELSE OtpCall("decode", TRUE, last.text, last.pad,
                          DecodeMessage(last.pad, last.text))
  /\ UNCHANGED <<key, disk, missions, created, nonces, made, broadcasts>>

NextDecode == UpdateDecodedCharacter

SpecDecode == InitDecode /\ [][NextDecode]_vars

\* ------------------------------------------------------------------ claims
\* what a fresh get_missions(key) on the directory returns now
Listed == GetMissions(key, disk)

ListedNext == GetMissions(key', disk')

\* the caller's record t after the step
GetNext(t) == IF t = 0 THEN created' ELSE missions'[t]

\* how many records of a listing carry the plain id
CountId(ms, id) == Cardinality({i \in 1..Len(ms) : ms[i].id = id})

\* the pad rows of a Decrypted record
RowsOf(m) == {SplitLines(m.data.s)[i] : i \in 1..Len(SplitLines(m.data.s))}

\* C1: after update_data(new_payload, key) returned True on a Decrypted record,
\* a fresh get_missions(key) on the same directory returns that mission with
\* payload exactly new_payload.
C1_UpdatePersistsAcrossReload ==
  (last.op = "update_data" /\ last.ok) =>
    \E i \in 1..Len(Listed) : Listed[i].id = last.id /\ Listed[i].data = last.arg

\* C2: a pad row that has produced the ciphertext of a broadcast never again
\* appears among the rows of that mission as get_missions(key) returns it.
C2_NoRowReuse ==
  \A b \in broadcasts : \A i \in 1..Len(Listed) :
    Listed[i].id = b.mission => b.row \notin RowsOf(Listed[i])

\* C3: under a valid key, decrypt after encrypt gives back the plain id and the
\* payload and leaves the record Decrypted: for every Decrypted record a caller
\* holds, for the encrypt/decrypt cycle update_data has just run, and for
\* decrypt on the record add_mission has just encrypted.
C3_RoundTrip ==
  /\ (last.op = "add_mission" /\ last.ok) =>
       LET d == Decrypt(created, key)
       IN d.ok /\ d.m.is_decrypted /\ d.m.id = last.id /\ d.m.data = last.arg
  /\ \A t \in Targets :
       (Get(t).is_decrypted /\ ValidKey(key)) =>
         LET e == Encrypt(Get(t), key, nonces)
             d == Decrypt(e.m, key)
         IN /\ e.ok /\ ~e.m.is_decrypted
            /\ d.ok /\ d.m.is_decrypted
            /\ d.m.id = Get(t).id
            /\ d.m.data = Get(t).data
  /\ (last.op = "update_data" /\ last.ok) =>
       /\ Get(last.t).is_decrypted
       /\ Get(last.t).id = last.id
       /\ Get(last.t).data = last.arg

\* C3 witness: update_data has run its cycle on a record whose filename form
\* differs from the standard base64 text, and left the record Decrypted
C3_Witness ==
  /\ last.op = "update_data" /\ last.ok
  /\ Get(last.t).is_decrypted
  /\ Get(last.t).encrypted_id.k = "b64"
  /\ Get(last.t).encrypted_id.sub

\* C4: every file of the directory is named by the filename form of the AEAD
\* ciphertext of a plain mission id; none is named by a plain mission id.
C4_FilesNamedByCiphertext ==
  \A i \in 1..Len(disk) :
    /\ disk[i].name.k = "b64"
    /\ disk[i].name.pt \in MissionIds

\* the files of a directory whose name opens to the plain id and whose content
\* opens to the payload
FilesOf(d, id, payload) ==
  {i \in 1..Len(d) :
     /\ Open(key, FromFilename(d[i].name)).ok
     /\ Open(key, FromFilename(d[i].name)).pt = id
     /\ Open(key, d[i].content).ok
     /\ Open(key, d[i].content).pt = payload}

\* C5: a successful update_data leaves the number of files unchanged, and the
\* ciphertext the mission had on disk before the call is gone after it.
C5_UpdateReplacesCiphertext ==
  [][(last'.op = "update_data" /\ last'.ok) =>
       /\ Len(disk') = Len(disk)
       /\ \A i \in FilesOf(disk, last'.id, Get(last'.t).data) :
            \A j \in 1..Len(disk') : disk'[j].content # disk[i].content]_vars

\* C6: remove_mission on a Decrypted record whose mission get_missions(key)
\* still returns gives True, and get_missions(key) then returns one record
\* fewer with that plain id.
C6_RemoveDeletesBackingFile ==
  [][(/\ last'.op = "remove_mission"
      /\ Get(last'.t).is_decrypted
      /\ CountId(Listed, Get(last'.t).id) > 0) =>
       /\ last'.ok
       /\ CountId(ListedNext, Get(last'.t).id) = CountId(Listed, Get(last'.t).id) - 1]_vars

\* C7: remove_mission returns False and leaves the directory as it was whenever
\* no file is named by the record's encrypted_id.
C7_RemoveMissingFileIsFalse ==
  [][(/\ last'.op = "remove_mission"
      /\ ~HasFile(disk, Get(last'.t).encrypted_id)) =>
       /\ ~last'.ok
       /\ disk' = disk]_vars

\* C7 witness: a remove_mission call returned False for a record whose
\* encrypted_id is a sealed identifier, with other files left in the directory
C7_Witness ==
  /\ last.op = "remove_mission" /\ ~last.ok
  /\ last.arg.k = "b64"
  /\ ~HasFile(disk, last.arg)
  /\ Len(disk) > 0

\* C8 as stated: the record add_mission returns is Decrypted, with the plain id
\* and the newline-joined pad rows.
C8_CreateReturnsDecrypted ==
  (last.op = "add_mission" /\ last.ok) =>
    /\ created.is_decrypted
    /\ created.id = last.id
    /\ created.data = last.arg

\* C8 amended: the record add_mission returns is Encrypted: is_decrypted() is
\* false, its id is the filename form of the sealed plain id, its payload is the
\* sealed newline-joined pad rows; one decrypt(key) by the caller gives the
\* Decrypted view with the plain id and the pad rows.
C8_CreateReturnsEncrypted ==
  (last.op = "add_mission" /\ last.ok) =>
    /\ ~created.is_decrypted
    /\ created.id.k = "b64" /\ created.id.pt = last.id
    /\ created.data.k = "b64" /\ created.data.pt = last.arg
    /\ created.data_is_bytes
    /\ LET d == Decrypt(created, key)
       IN /\ d.ok /\ d.m.is_decrypted
          /\ d.m.id = last.id
          /\ d.m.data = last.arg

\* C8 witness: add_mission has just returned a record
C8_Witness ==
  /\ last.op = "add_mission" /\ last.ok
  /\ created # None
  /\ HasFile(disk, created.id)

\* C9: a successful add_mission appends exactly one file to the directory, and
\* get_missions(key) returns a record loaded from it whose id is the generated
\* plain id and whose payload is the generated pad.
C9_CreateThenList ==
  [][(last'.op = "add_mission" /\ last'.ok) =>
       /\ Len(disk') = Len(disk) + 1
       /\ SubSeq(disk', 1, Len(disk)) = disk
       /\ LET f == disk'[Len(disk')]
              r == Decrypt(Load(NewMission(f.name), f), key)
          IN /\ r.ok
             /\ r.m.id = last'.id
             /\ r.m.data = last'.arg
             /\ \E i \in 1..Len(ListedNext) : ListedNext[i] = r.m]_vars

\* C9 witness: a second mission was added next to one already stored
C9_Witness ==
  /\ last.op = "add_mission" /\ last.ok
  /\ Len(disk) >= 2
  /\ CountId(Listed, last.id) >= 1

\* C10: decrypt(key) on a record that is already Decrypted returns True and
\* leaves every field of the record as it was, encrypted_id included.
C10_DecryptDecryptedIsNoOp ==
  [][(last'.op = "decrypt" /\ Get(last'.t).is_decrypted) =>
       /\ last'.ok
       /\ GetNext(last'.t) = Get(last'.t)]_vars

\* the records get_missions builds from the directory, before it decrypts them
Built(d) == [i \in 1..Len(d) |-> Load(NewMission(d[i].name), d[i])]

\* two record values with the same id, payload and flag
SameRecordContent(a, b) ==
  a.id = b.id /\ a.data = b.data /\ a.is_decrypted = b.is_decrypted

\* C11: when decrypt(key) returns False on an Encrypted record, the record's
\* id, payload and flag are what they were before the call: for the calls on
\* records a caller holds and for the calls get_missions makes on the records
\* it builds.
C11_FailedDecryptLeavesRecord ==
  [][/\ (last'.op = "decrypt" /\ ~last'.ok /\ ~Get(last'.t).is_decrypted) =>
          SameRecordContent(GetNext(last'.t), Get(last'.t))
     /\ (last'.op = "get_missions") =>
          \A i \in 1..Len(disk) :
            LET r == Decrypt(Built(disk)[i], last'.arg)
            IN ~r.ok => SameRecordContent(r.m, Built(disk)[i])]_vars

\* what a record holds is plaintext or not
RecordMatchesFlag(m) ==
  IF m.is_decrypted
  THEN m.id \in MissionIds /\ m.data.k = "txt" /\ m.data # Garbled
  ELSE m.id.k = "b64" /\ (m.data.k = "b64" \/ m.data = Garbled)

\* C12: every state of a record has the representation its flag names, plain
\* id and plain payload when Decrypted and ciphertext for both when Encrypted,
\* and a call changes the flag only when it reports success: for the records a
\* caller holds and for the records get_missions has decrypted or failed to.
C12_RepresentationMatchesFlag ==
  [][/\ \A t \in Targets' : GetNext(t) # None => RecordMatchesFlag(GetNext(t))
     /\ (last'.op = "get_missions") =>
          \A i \in 1..Len(disk) :
            RecordMatchesFlag(Decrypt(Built(disk)[i], last'.arg).m)
     /\ (last'.op \in {"decrypt", "encrypt"}
          /\ GetNext(last'.t).is_decrypted # Get(last'.t).is_decrypted) => last'.ok]_vars

\* C13: decrypt(k) with a key whose length is not 16, 24 or 32 bytes on an
\* Encrypted record returns False and leaves the record Encrypted with the id
\* and the payload it had.
C13_InvalidKeyDecryptFails ==
  [][(last'.op = "decrypt" /\ ~ValidKey(last'.arg) /\ ~Get(last'.t).is_decrypted) =>
       /\ ~last'.ok
       /\ ~GetNext(last'.t).is_decrypted
       /\ SameRecordContent(GetNext(last'.t), Get(last'.t))]_vars

\* C13 witness: decrypt with the 10-byte key has failed on the Encrypted record
\* add_mission returned under a valid key
C13_Witness ==
  /\ last.op = "decrypt" /\ ~last.ok
  /\ last.arg.len = 10
  /\ last.t = 0 /\ created # None
  /\ ~created.is_decrypted /\ created.id.k = "b64" /\ created.data.k = "b64"
  /\ ValidKey(key)

\* C14: encrypt(k) with a key whose length is not 16, 24 or 32 bytes fails
\* before a nonce is drawn and before the id, the payload or the flag of the
\* record is touched; add_mission under such a key draws no nonce and writes no
\* file.
C14_InvalidKeyEncryptFailsFirst ==
  [][/\ (last'.op = "encrypt" /\ ~ValidKey(last'.arg)) =>
          /\ ~last'.ok
          /\ nonces' = nonces
          /\ GetNext(last'.t) = Get(last'.t)
     /\ (last'.op = "add_mission" /\ ~ValidKey(key)) =>
          /\ ~last'.ok
          /\ nonces' = nonces
          /\ disk' = disk]_vars

\* C14 witness: encrypt with the 10-byte key has failed on a Decrypted record
\* that holds a plain id and a pad
C14_Witness ==
  /\ last.op = "encrypt" /\ ~last.ok
  /\ last.arg.len = 10
  /\ Get(last.t).is_decrypted
  /\ Get(last.t).id \in MissionIds
  /\ Get(last.t).data.k = "txt" /\ Len(Get(last.t).data.s) > 0

\* file f has a name and a content that both open under key k
Opens(k, f) ==
  ValidKey(k) /\ Open(k, FromFilename(f.name)).ok /\ Open(k, f.content).ok

\* C15: get_missions(k) returns, in directory order, one Decrypted record for
\* each file whose name and content both open under k, carrying the opened id
\* and payload, and nothing for any other file, wherever the failing files
\* stand in the directory.
C15_ListSkipsFailingFiles ==
  [][(last'.op = "get_missions") =>
       LET k == last'.arg
           good == SelectSeq(disk, LAMBDA f : Opens(k, f))
       IN /\ Len(missions') = Len(good)
          /\ \A i \in 1..Len(good) :
               /\ missions'[i].is_decrypted
               /\ missions'[i].id = Open(k, FromFilename(good[i].name)).pt
               /\ missions'[i].data = Open(k, good[i].content).pt
               /\ missions'[i].encrypted_id = good[i].name]_vars

\* C15 witness: a listing under the session key returned a record for a file
\* that stands after a damaged file and after a file whose name does not open
C15_Witness ==
  /\ last.op = "get_missions" /\ last.arg = key
  /\ \E i, j, n \in 1..Len(disk) :
       /\ i < n /\ j < n
       /\ disk[i].content = Garbled /\ Open(key, FromFilename(disk[i].name)).ok
       /\ ~Open(key, FromFilename(disk[j].name)).ok
       /\ Opens(key, disk[n])
       /\ \E x \in 1..Len(missions) : missions[x].encrypted_id = disk[n].name

\* the seal a transport string came from: key, nonce and plaintext
SealOf(v) == [key |-> v.key, nonce |-> v.nonce, pt |-> v.pt]

\* the seals whose output a file name, a file content or a field of a record a
\* caller holds carries
SealsOf(vs) == {SealOf(v) : v \in {x \in vs : x.k = "b64"}}

AllSeals ==
  SealsOf({disk[i].name : i \in 1..Len(disk)})
    \cup SealsOf({disk[i].content : i \in 1..Len(disk)})
    \cup SealsOf({Get(t).id : t \in Targets})
    \cup SealsOf({Get(t).encrypted_id : t \in Targets})
    \cup SealsOf({Get(t).data : t \in Targets})

\* C16: with os.urandom taken to return a value it has not returned before, no
\* two seals under one key use the same nonce: the seals of the id and of the
\* payload in one encrypt call differ in their nonce, a new seal uses a nonce
\* drawn in its own step, and two seals of the same plaintext give different
\* transport strings that both open to it.
C16_NoNonceReuse ==
  [][/\ \A a, b \in AllSeals' :
          (a.key = b.key /\ a.nonce = b.nonce) => a = b
     /\ \A a \in AllSeals' \ AllSeals : a.nonce > nonces /\ a.nonce <= nonces'
     /\ \A a, b \in AllSeals' :
          (a.key = b.key /\ a.pt = b.pt /\ a # b) =>
            /\ Seal(a.key, a.nonce, a.pt) # Seal(b.key, b.nonce, b.pt)
            /\ Open(a.key, Seal(a.key, a.nonce, a.pt)).pt = a.pt
            /\ Open(b.key, Seal(b.key, b.nonce, b.pt)).pt = a.pt]_vars

\* C16 witness: update_data has sealed the plain id a second time, the first
\* seal being the name of the stored file, and the payload next to it
C16_Witness ==
  /\ last.op = "update_data" /\ last.ok
  /\ \E a, b, c \in AllSeals :
       /\ a.key = key /\ b.key = key /\ c.key = key
       /\ a.pt = last.id /\ b.pt = last.id /\ a.nonce # b.nonce
       /\ c.pt = last.arg /\ c.nonce # a.nonce /\ c.nonce # b.nonce

\* C17: whenever update_data has returned True, the payload the record holds
\* in memory is the payload get_missions(key) loads for that mission from the
\* directory.
C17_MemoryMatchesDisk ==
  (last.op = "update_data" /\ last.ok) =>
    /\ CountId(Listed, last.id) = 1
    /\ \A i \in 1..Len(Listed) :
         Listed[i].id = last.id => Listed[i].data = Get(last.t).data

\* C18: a Decrypted record of a mission that is still stored has an
\* encrypted_id that names a file of the directory and opens under the session
\* key to the record's plain id.
C18_StoredIdNamesFile ==
  \A t \in Targets :
    (Get(t).is_decrypted /\ CountId(Listed, Get(t).id) > 0) =>
      /\ HasFile(disk, Get(t).encrypted_id)
      /\ Open(key, FromFilename(Get(t).encrypted_id)).ok
      /\ Open(key, FromFilename(Get(t).encrypted_id)).pt = Get(t).id

\* C19: when the process dies inside update_data after the new ciphertext was
\* computed and before the write has returned, get_missions(key) afterwards
\* returns the mission as often as before, each time with the payload it
\* returned before or with the new payload, whole.
C19_CrashLeavesOldOrNew ==
  [][(last'.op = "crash") =>
       /\ CountId(ListedNext, last'.id) = CountId(Listed, last'.id)
       /\ \A j \in 1..Len(ListedNext) :
            ListedNext[j].id = last'.id =>
              \/ ListedNext[j].data = last'.arg
              \/ \E i \in 1..Len(Listed) :
                   Listed[i].id = last'.id /\ Listed[i].data = ListedNext[j].data]_vars

\* C19 witness: the process died with a part of the new ciphertext written, and
\* the mission is still listed
C19_Witness ==
  /\ last.op = "crash"
  /\ \E i \in 1..Len(disk) : disk[i].content.k = "part"
  /\ CountId(Listed, last.id) = 1

\* C20: for digit strings m and p with len(p) >= len(m),
\* otp_mod_decrypt(otp_mod_encrypt(m, p), p) is m.
C20_OtpRoundTrip ==
  [][(last.op = "otp_mod_encrypt" /\ Len(last.pad) >= Len(last.text)
      /\ last'.op = "otp_mod_decrypt") =>
       /\ last.ok /\ last'.ok
       /\ last'.text = last.out /\ last'.pad = last.pad
       /\ last'.out = last.text]_vars

\* C20 witness: a message got back from a pad longer than it, with a digit
\* whose sum with the pad digit passed 9
C20_Witness ==
  /\ last.op = "otp_mod_decrypt" /\ last.ok
  /\ Len(last.pad) > Len(last.text) /\ Len(last.text) >= 1
  /\ \E i \in 1..Len(last.text) :
       /\ IntOf(last.out[i]) + IntOf(last.pad[i]) >= 10
       /\ IntOf(last.text[i]) = IntOf(last.out[i]) + IntOf(last.pad[i]) - 10

\* C21: otp_mod_encrypt and otp_mod_decrypt fail, giving no digit, on every
\* text and pad with len(pad) < len(text), and on no other; the pad is not
\* started over to cover the rest of the text.
C21_PadTooShortFails ==
  (last.op \in {"otp_mod_encrypt", "otp_mod_decrypt"}) =>
    /\ last.ok = (Len(last.pad) >= Len(last.text))
    /\ (~last.ok) => last.out = <<>>

\* C21 witness: otp_mod_decrypt has failed on a pad that is not empty and is
\* shorter than the ciphertext
C21_Witness ==
  /\ last.op = "otp_mod_decrypt" /\ ~last.ok
  /\ Len(last.pad) >= 1 /\ Len(last.pad) < Len(last.text)

Codes == {<<DigitChar(n \div 10), DigitChar(n % 10)>> : n \in 0..26}

C24_DecodePairCount ==
  (last.op = "decode") =>
    LET min_length == IF Len(last.pad) <= Len(last.text)
                      THEN Len(last.pad) ELSE Len(last.text)
    IN /\ Len(last.out) = min_length \div 2
       /\ \A n \in 1..Len(last.out) :
            last.out[n] = DecodeCharacter(SubSeq(last.pad, 2 * n - 1, 2 * n),
                                          SubSeq(last.text, 2 * n - 1, 2 * n))

\* C24 witness: two characters decoded from rows of five digits, the fifth
\* digit of each giving none
C24_Witness ==
  /\ last.op = "decode" /\ last.ok
  /\ Len(last.text) = 5 /\ Len(last.pad) = 5
  /\ Len(last.out) = 2
  /\ last.out[1] # last.out[2]

\* C25: a generation that reaches update_data uses the first row of the
\* record and no other: the broadcast's ciphertext is a message added to the
\* digits of that row, and the payload given to update_data is the rows of the
\* record without the first, the others as they were and in their order.
C25_ConsumesFirstRow ==
  [][(last'.op = "update_data") =>
       LET rows == SplitLines(Get(last'.t).data.s)
       IN /\ Len(rows) >= 1
          /\ SplitLines(last'.arg.s) = Tail(rows)
          /\ last'.arg = Txt(JoinWith("\n", Tail(rows)))
          /\ \E b \in broadcasts' :
               /\ b.mission = last'.id /\ b.row = rows[1]
               /\ \E message \in UpperMessages :
                    /\ message # <<>>
                    /\ b.ciphertext =
                         OtpModEncrypt(EncodedMessage(message),
                                       StripReplaceSpaces(rows[1])).digits
          /\ \A b \in broadcasts' \ broadcasts : b.row = rows[1]]_vars

\* C25 witness: a generation took the first of two rows and left the second
C25_Witness ==
  /\ last.op = "update_data" /\ last.ok
  /\ Len(SplitLines(last.arg.s)) = Pages - 1
  /\ Get(last.t).data = last.arg
  /\ \E b \in broadcasts : b.mission = last.id /\ b.row \notin RowsOf(Get(last.t))

\* C26: when the message's digits outnumber the digits of the first row the
\* generation stops at the OTP step: no broadcast is added, no row leaves the
\* record, update_data is not called, and the record in memory, the files and
\* the nonces drawn are what they were.  No broadcast ever carries a
\* ciphertext that is not a whole message added to its row.
C26_FailedOtpChangesNothing ==
  [][/\ (last'.op = "generate" /\ last'.arg.why = "pad_too_short") =>
          UNCHANGED <<disk, missions, created, nonces, made, broadcasts>>
     /\ \A b \in broadcasts' \ broadcasts :
          LET pad_row == StripReplaceSpaces(b.row)
          IN \E message \in UpperMessages :
               LET encoded_message == EncodedMessage(message)
               IN /\ message # <<>>
                  /\ Len(encoded_message) <= Len(pad_row)
                  /\ Len(b.ciphertext) = Len(encoded_message)
                  /\ \A i \in 1..Len(encoded_message) :
                       b.ciphertext[i] =
                         DigitChar((IntOf(encoded_message[i]) + IntOf(pad_row[i])) % 10)]_vars

\* C26 witness: a generation was stopped by a first row with fewer digits than
\* the message, on a Decrypted record that still has all its rows
C26_Witness ==
  /\ last.op = "generate" /\ ~last.ok /\ last.arg.why = "pad_too_short"
  /\ Get(last.t).is_decrypted
  /\ Len(SplitLines(Get(last.t).data.s)) = Pages
  /\ \E message \in UpperMessages :
       Len(EncodedMessage(message))
         > Len(StripReplaceSpaces(SplitLines(Get(last.t).data.s)[1]))

\* C27: a message that validate_broadcast_text accepted never meets a full
\* first row that is too short for it: a generation on a Decrypted record
\* whose first row has all its GroupsPerPage groups of GroupLength digits is
\* never stopped by the pad's length.
C27_ValidatedMessageFitsRow ==
  (/\ last.op = "generate"
   /\ Get(last.t).is_decrypted
   /\ Get(last.t).data.k = "txt"
   /\ SplitLines(Get(last.t).data.s) # <<>>
   /\ Len(StripReplaceSpaces(SplitLines(Get(last.t).data.s)[1]))
        = GroupsPerPage * GroupLength)
    => last.arg.why # "pad_too_short"

\* C28: encrypt(key) with a valid key on a record that is already Encrypted,
\* just loaded from its file or just encrypted, adds no second layer: the
\* record's id and payload after the call are what they were before it.
C28_EncryptOnEncryptedKeepsRecord ==
  [][(/\ last'.op = "encrypt"
      /\ ValidKey(last'.arg)
      /\ ~Get(last'.t).is_decrypted) =>
       /\ GetNext(last'.t).id = Get(last'.t).id
       /\ GetNext(last'.t).data = Get(last'.t).data]_vars

\* C29: when update_data returns False the record is what it was before the
\* call: still Decrypted, with its plain id and the payload it had; it does
\* not show the new payload, which was not written.
C29_FailedUpdateKeepsRecord ==
  [][(/\ last'.op = "update_data"
      /\ ~last'.ok
      /\ Get(last'.t).is_decrypted) =>
       /\ GetNext(last'.t).is_decrypted
       /\ GetNext(last'.t).id = Get(last'.t).id
       /\ GetNext(last'.t).data = Get(last'.t).data
       /\ disk' = disk]_vars

\* the number of pad rows a Decrypted record holds
RowCount(m) == Len(SplitLines(m.data.s))

\* C30: every generation that reaches update_data takes exactly one row from
\* the record; when it took the last one, get_missions(key) still lists the
\* mission, once, with an empty payload; and on a record without rows every
\* generation is refused before a ciphertext is made or update_data is called.
C30_ExhaustedMissionStaysEmpty ==
  [][/\ (last'.op = "update_data" /\ last'.ok) =>
          /\ RowCount(Get(last'.t)) >= 1
          /\ RowCount(GetNext(last'.t)) = RowCount(Get(last'.t)) - 1
     /\ (last'.op = "update_data" /\ last'.ok /\ RowCount(GetNext(last'.t)) = 0) =>
          /\ GetNext(last'.t).is_decrypted
          /\ CountId(ListedNext, last'.id) = 1
          /\ \A i \in 1..Len(ListedNext) :
               ListedNext[i].id = last'.id => ListedNext[i].data = Txt(<<>>)
     /\ (/\ last'.op \in {"generate", "update_data"}
         /\ Get(last'.t).is_decrypted
         /\ RowCount(Get(last'.t)) = 0) =>
          /\ last'.op = "generate"
          /\ last'.arg.why \in {"no_message", "no_data"}
          /\ UNCHANGED <<disk, missions, created, nonces, broadcasts>>]_vars

====
